---- MODULE Spec2Model ----
(***************************************************************************)
(* Model of the Facebook automation application.                           *)
(*                                                                         *)
(*   app_runner.py                         FacebookAutomationApp: the      *)
(*       scheduler loop, the retry loop, one cycle (_execute_workflow),    *)
(*       the run statistics and the daily limits.                          *)
(*   src/browser/facebook_automation_workflow.py                           *)
(*       FacebookAutomationWorkflow: login, the page loop, the post loop   *)
(*       and the processing of one post.                                   *)
(*                                                                         *)
(* The main thread is a sequential program; pc is its position.  The only  *)
(* asynchronous event is a termination signal, whose handler sets          *)
(* shutdown_event.  Everything the environment decides (what a page shows, *)
(* whether the login works, what the clock reads) is a choice with \E.     *)
(*                                                                         *)
(* Not modelled: logging, stats['next_run_time'] (written by the scheduler *)
(* loop, read only by the log), PostData.timestamp, and the lengths of the *)
(* sleeps.                                                                 *)
(***************************************************************************)
EXTENDS Integers, Sequences, FiniteSets, TLC

None == "None"

(***************************************************************************)
(* Bounds of the model and scaled-down configuration values.               *)
(***************************************************************************)
\* MAX_RETRIES is read from the environment; the model tries 1 (no retry)
\* and MaxRetriesEnv.
MaxRetriesEnv == 2
\* DAILY_POST_LIMIT and DAILY_COMMENT_LIMIT (environment), scaled down.
daily_post_limit == 2
daily_comment_limit == 1
\* MAX_POSTS_PER_PAGE (environment), scaled down.
max_posts_per_page == 1
\* Calendar dates are 0..MaxDay.
MaxDay == 1
\* The largest number of post elements select_posts() finds on a page.
MaxPostsFound == 2
\* The scheduler starts at most MaxCycles cycles (the immediate one included).
MaxCycles == 2

\* FACEBOOK_PAGES (environment): the configured pages, in order.
facebook_pages == <<"page1", "page2">>
\* The post identifiers the pages can show.
PostIds == {"pfbid1", "pfbid2"}
\* What the store holds when the process starts: one post of an earlier run.
InitialDb == {"pfbid1"}

(***************************************************************************)
(* Time.  A datetime is a date, a second of the day and a microsecond;     *)
(* strftime('%Y-%m-%d %H:%M:%S') keeps the date and the second and drops   *)
(* the microsecond, strptime reads it back with microsecond 0.             *)
(***************************************************************************)
Seconds == {0}
Micros == {0, 1}
DateTimes == [date : 0..MaxDay, second : Seconds, microsecond : Micros]

Before(a, b) ==
    \/ a.date < b.date
    \/ a.date = b.date /\ a.second < b.second
    \/ a.date = b.date /\ a.second = b.second /\ a.microsecond < b.microsecond

\* The values a later call of datetime.now() can return.
NowFrom(t) == {u \in DateTimes : ~Before(u, t)}

strftime(t) == [ymd |-> t.date, hms |-> t.second]
strptime(s) == [date |-> s.ymd, second |-> s.hms, microsecond |-> 0]

\* A reading cut to the second.  The clock is kept at this resolution: the
\* program never looks at the microsecond of a reading.
Trunc(t) == strptime(strftime(t))


\* stats['last_run_time'] before any run (Python None).
NoTime == [ymd |-> -1, hms |-> -1]

\* Python truthiness of an optional string.
Truthy(x) == x # None /\ x # ""

VARIABLES
    run_mode,          \* RUN_MODE: "single" or "scheduled"
    max_retries,       \* MAX_RETRIES
    enable_comments,   \* ENABLE_COMMENTS
    stats,             \* FacebookAutomationApp.stats
    shutdown_event,    \* threading.Event, set by the signal handler
    is_running,        \* FacebookAutomationApp.is_running
    workflow,          \* FacebookAutomationApp.workflow: None or "workflow"
    browsers,          \* number of open browser sessions
    db,                \* ids of the rows of processed_posts
    clock,             \* the last value datetime.now() returned, cut to the second
    pc,                \* position of the main thread
    caller,            \* who called _execute_workflow_with_retries
    attempt,           \* loop variable of _execute_workflow_with_retries
    cycles,            \* calls of _execute_workflow_with_retries so far
    results,           \* run_workflow: results
    page_idx,          \* run_workflow: index of page_name in page_names
    page_results,      \* _process_page: results
    processed_ids,     \* _process_page: processed_ids
    processed_count,   \* _process_page: processed_count
    posts,             \* _process_page: len(posts)
    post_idx,          \* _process_page: i + 1
    ret,               \* outcome of the current or last retry call
    nAttempts,         \* calls of _execute_workflow in that retry call
    nFails,            \* of which raised
    nSleeps,           \* retry-delay sleeps started in that retry call
    lastAttempt,       \* what the last _execute_workflow did
    exit_code,         \* exit status of the process, -1 while it runs
    printed,           \* _print_statistics ran on the way out
    \* FacebookDatabase on its own
    rows,              \* processed_posts: id -> [date, page, success]
    inserted,          \* ids for which insert_post returned True
    op,                \* the last call on the store and its answer
    \* one _process_page call, step by step
    post_data,         \* _process_single_post: <<post_data>>, <<>> for None
    tabs,              \* browser tabs open besides the main one
    navigated,         \* the pages browser.get was called for, in order
    found,             \* _load_initial_posts: len(posts) of each query
    scrolls,           \* _load_initial_posts: times of each scroll call
    tried,             \* _extract_article_url: strategies invoked, with outcome
    post_exc,          \* the step of the current post known to have raised, or None
    close_all,         \* close_all_other_tabs was attempted for that post
    page_exc,          \* the pages whose processing raised
    waits,             \* _process_page: inter-post delays started for the page
    published,         \* run_workflow: _post_comment calls that answered True
    \* URLUtils on its own
    text,              \* the argument, a sequence of characters
    match,             \* what the function returned
    \* FacebookScraper.login on its own
    cookie_file,       \* cookie_file.exists()
    login_attempt,     \* login: attempt
    login_log          \* what login did so far, in order

cfgVars == <<run_mode, max_retries, enable_comments>>
appVars == <<stats, is_running, workflow, browsers, clock>>
loopVars == <<caller, attempt, cycles>>
wfVars == <<results, page_idx>>
pageVars == <<page_results, processed_ids, processed_count, posts, post_idx>>
obsVars == <<ret, nAttempts, nFails, nSleeps, lastAttempt>>
exitVars == <<exit_code, printed>>
dbVars == <<rows, inserted, op>>
stepVars == <<post_data, tabs, navigated, found, scrolls, tried, post_exc,
              close_all, page_exc, waits, published>>
textVars == <<text, match>>
\* What only the stand-alone specifications below use.
loginVars == <<cookie_file, login_attempt, login_log>>
unitVars == <<dbVars, stepVars, textVars, loginVars>>
vars == <<cfgVars, appVars, loopVars, wfVars, pageVars, obsVars, exitVars,
          shutdown_event, db, pc, unitVars>>

\* The variables of the stand-alone specifications, not in use.
NoOp == [name |-> None, id |-> None, row |-> None, ret |-> FALSE]
DbIdle ==
    /\ rows = <<>>
    /\ inserted = {}
    /\ op = NoOp
StepIdle ==
    /\ post_data = <<>>
    /\ tabs = 0
    /\ navigated = <<>>
    /\ found = <<>>
    /\ scrolls = <<>>
    /\ tried = <<>>
    /\ post_exc = None
    /\ close_all = FALSE
    /\ page_exc = {}
    /\ waits = 0
    /\ published = 0
\* re.search found nothing (None); a match of these patterns is never empty.
NoMatch == <<>>
TextIdle ==
    /\ text = <<>>
    /\ match = NoMatch
LoginIdle ==
    /\ cookie_file = FALSE
    /\ login_attempt = 0
    /\ login_log = <<>>

\* FacebookAutomationApp.__init__: the statistics.
InitStats ==
    [total_runs |-> 0, successful_runs |-> 0, failed_runs |-> 0,
     total_posts_processed |-> 0, total_comments_posted |-> 0,
     total_articles_analyzed |-> 0,
     daily_posts_processed |-> 0, daily_comments_posted |-> 0,
     last_run_time |-> NoTime, errors |-> <<>>]

Init ==
    /\ run_mode \in {"single", "scheduled"}
    /\ max_retries \in {1, MaxRetriesEnv}
    /\ enable_comments \in BOOLEAN
    /\ stats = InitStats
    /\ shutdown_event = FALSE
    /\ is_running = FALSE
    /\ workflow = None
    /\ browsers = 0
    /\ db = InitialDb
    /\ clock = [date |-> 0, second |-> 0, microsecond |-> 0]
    /\ pc = "start"
    /\ caller = None
    /\ attempt = 0
    /\ cycles = 0
    /\ results = <<>>
    /\ page_idx = 0
    /\ page_results = <<>>
    /\ processed_ids = {}
    /\ processed_count = 0
    /\ posts = 0
    /\ post_idx = 0
    /\ ret = None
    /\ nAttempts = 0
    /\ nFails = 0
    /\ nSleeps = 0
    /\ lastAttempt = None
    /\ exit_code = -1
    /\ printed = FALSE
    /\ DbIdle /\ StepIdle /\ LoginIdle /\ TextIdle

(***************************************************************************)
(* Statistics.                                                             *)
(***************************************************************************)
\* Mutant of ResetDailyStatsIfNeeded: "<=" for "<", a reset on the same date.
ResetDailyStatsSameDay(s, now) ==
    IF s.last_run_time # NoTime /\ strptime(s.last_run_time).date <= now.date
    THEN [s EXCEPT !.daily_posts_processed = 0, !.daily_comments_posted = 0]
    ELSE s

\* _reset_daily_stats_if_needed, with now the value of its datetime.now().
ResetDailyStatsIfNeeded(s, now) ==
    IF s.last_run_time # NoTime /\ strptime(s.last_run_time).date < now.date
    THEN [s EXCEPT !.daily_posts_processed = 0, !.daily_comments_posted = 0]
    ELSE s

\* The posts of a run that _update_statistics counts as analysed / commented.
ArticlesAnalyzed(res) ==
    Cardinality({i \in 1..Len(res) : Truthy(res[i].article_text)})
CommentsCounted(res) ==
    Cardinality({i \in 1..Len(res) :
        enable_comments /\ res[i].analysis # None /\ Truthy(res[i].analysis)})

\* _update_statistics
UpdateStatistics(s, res) ==
    [s EXCEPT !.total_posts_processed = @ + Len(res),
              !.daily_posts_processed = @ + Len(res),
              !.total_articles_analyzed = @ + ArticlesAnalyzed(res),
              !.total_comments_posted = @ + CommentsCounted(res),
              !.daily_comments_posted = @ + CommentsCounted(res)]

\* _execute_workflow, lines 161-167: the bookkeeping before the limit check.
\* now1 is the clock read for last_run_time, now2 the one read by the reset.
StatsAtStart(s, now1, now2) ==
    ResetDailyStatsIfNeeded(
        [s EXCEPT !.total_runs = @ + 1, !.last_run_time = strftime(now1)], now2)

\* Mutant of DailyLimitReached: ">" for ">=".
DailyLimitExceeded(s) ==
    \/ s.daily_posts_processed > daily_post_limit
    \/ enable_comments /\ s.daily_comments_posted > daily_comment_limit

\* _execute_workflow, lines 170-175: a daily limit is already reached.
DailyLimitReached(s) ==
    \/ s.daily_posts_processed >= daily_post_limit
    \/ enable_comments /\ s.daily_comments_posted >= daily_comment_limit

\* Mutant of RecordFailure: the failure is counted but not logged.
RecordFailureNoEntry(s) ==
    [s EXCEPT !.failed_runs = @ + 1]

\* _execute_workflow, the except clause: the failure is recorded.
RecordFailure(s) ==
    [s EXCEPT !.failed_runs = @ + 1,
              !.errors = Append(@, "An unhandled exception occurred")]

(***************************************************************************)
(* Calls and returns of _execute_workflow_with_retries.                    *)
(***************************************************************************)
\* A call from _run_single ("single"), from _run_scheduled line 118
\* ("first") or from schedule.run_pending() ("pending").
BeginCall(c) ==
    /\ pc' = "retry_top"
    /\ caller' = c
    /\ attempt' = 0
    /\ cycles' = cycles + 1
    /\ ret' = "running"
    /\ nAttempts' = 0
    /\ nFails' = 0
    /\ nSleeps' = 0
    /\ lastAttempt' = None

\* Mutant of ReturnTo: _run_single logs the exception and does not exit(1).
ReturnToNoExit(r) ==
    /\ ret' = r
    /\ IF caller = "single"
       THEN /\ pc' = "exited"
            /\ exit_code' = 0
            /\ printed' = TRUE
       ELSE IF r = "raised"
            THEN /\ pc' = "crashed"
                 /\ exit_code' = 1
                 /\ printed' = FALSE
            ELSE /\ pc' = "sched_loop"
                 /\ UNCHANGED exitVars

\* The call ends with r ("returned" or "raised") and its caller goes on.
\* _run_single: sys.exit(1) on an exception, and its finally clause prints
\* the statistics either way.  _run_scheduled and run_pending() catch
\* nothing: an exception ends the process with a traceback (status 1).
ReturnTo(r) ==
    /\ ret' = r
    /\ IF caller = "single"
       THEN /\ pc' = "exited"
            /\ exit_code' = (IF r = "raised" THEN 1 ELSE 0)
            /\ printed' = TRUE
       ELSE IF r = "raised"
            THEN /\ pc' = "crashed"
                 /\ exit_code' = 1
                 /\ printed' = FALSE
            ELSE /\ pc' = "sched_loop"
                 /\ UNCHANGED exitVars

\* start(): dispatch on the run mode.
Start ==
    /\ pc = "start"
    /\ BeginCall(IF run_mode = "single" THEN "single" ELSE "first")
    /\ UNCHANGED <<cfgVars, unitVars, appVars, wfVars, pageVars, exitVars,
                   shutdown_event, db>>

\* _signal_handler: SIGINT or SIGTERM arrives while the process runs.
SignalHandler ==
    /\ pc \notin {"exited", "stopped", "crashed"}
    /\ shutdown_event' = TRUE
    /\ UNCHANGED <<cfgVars, unitVars, appVars, loopVars, wfVars, pageVars,
                   obsVars,
                   exitVars, db, pc>>

(***************************************************************************)
(* _execute_workflow_with_retries and _execute_workflow.                   *)
(***************************************************************************)
\* Mutant of ShouldRetry: off by one, a delay after the last attempt too.
ShouldRetryOffByOne(a) == a < max_retries

\* Line 148: after a failed attempt, is there another one?
ShouldRetry(a) == a < max_retries - 1

\* Mutant of RetryShutdown: a call that had a failed attempt re-raises it
\* when it is cut short.
RetryShutdownReraises ==
    /\ pc = "retry_top"
    /\ shutdown_event \/ attempt >= max_retries
    /\ ReturnTo(IF nFails > 0 THEN "raised" ELSE "returned")
    /\ UNCHANGED <<cfgVars, unitVars, appVars, loopVars, wfVars, pageVars,
                   nAttempts, nFails, nSleeps, lastAttempt,
                   shutdown_event, db>>

\* The retry loop ends without an attempt: the shutdown check at its top
\* (lines 139-141), or range(max_retries) is used up.
RetryShutdown ==
    /\ pc = "retry_top"
    /\ shutdown_event \/ attempt >= max_retries
    /\ ReturnTo("returned")
    /\ UNCHANGED <<cfgVars, unitVars, appVars, loopVars, wfVars, pageVars,
                   nAttempts, nFails, nSleeps, lastAttempt,
                   shutdown_event, db>>

\* Mutant of RetryHandler: the next attempt starts without the delay.
RetryHandlerNoDelay ==
    IF ShouldRetry(attempt)
    THEN /\ pc' = "sleeping"
         /\ nSleeps' = nSleeps
         /\ UNCHANGED <<ret, exitVars>>
    ELSE /\ nSleeps' = nSleeps
         /\ ReturnTo("raised")

\* The except clause of the retry loop (lines 146-153): sleep the retry
\* delay and go on, or re-raise after the last attempt.
RetryHandler ==
    IF ShouldRetry(attempt)
    THEN /\ pc' = "sleeping"
         /\ nSleeps' = nSleeps + 1
         /\ UNCHANGED <<ret, exitVars>>
    ELSE /\ nSleeps' = nSleeps
         /\ ReturnTo("raised")

\* run_workflow has returned or raised: its locals are gone.
NoWorkflowLocals ==
    /\ results' = <<>>
    /\ page_idx' = 0

\* _process_page has returned: its locals are gone.
NoPageLocals ==
    /\ page_results' = <<>>
    /\ processed_ids' = {}
    /\ processed_count' = 0
    /\ posts' = 0
    /\ post_idx' = 0

\* An attempt raised: the except and finally clauses of _execute_workflow
\* (s is the statistics when the exception is caught, what tells where it
\* came from), then the except clause of the retry loop.
FailAttempt(s, what) ==
    /\ stats' = RecordFailure(s)
    /\ is_running' = FALSE
    /\ workflow' = None
    /\ nFails' = nFails + 1
    /\ lastAttempt' = what
    /\ RetryHandler

\* The cycle ran to its end with results res: lines 179-181 and the finally.
CycleSuccess(res) ==
    /\ stats' = [UpdateStatistics(stats, res) EXCEPT !.successful_runs = @ + 1]
    /\ is_running' = FALSE
    /\ workflow' = None
    /\ browsers' = browsers - 1
    /\ lastAttempt' = "ok"
    /\ ReturnTo("returned")
    /\ UNCHANGED <<nAttempts, nFails, nSleeps>>

\* One iteration of the retry loop up to the construction of the workflow.
ExecuteWorkflow ==
    /\ pc = "retry_top"
    /\ ~shutdown_event
    /\ attempt < max_retries
    /\ nAttempts' = nAttempts + 1
    /\ IF is_running
       THEN \* lines 157-159
            /\ lastAttempt' = "busy"
            /\ ReturnTo("returned")
            /\ UNCHANGED <<appVars, nFails, nSleeps>>
       ELSE \E now1 \in NowFrom(clock) : \E now2 \in NowFrom(now1) :
            LET s1 == StatsAtStart(stats, now1, now2) IN
            /\ clock' = Trunc(now2)
            /\ \/ \* a daily limit is reached: return, then the finally
                  /\ DailyLimitReached(s1)
                  /\ stats' = s1
                  /\ lastAttempt' = "skipped"
                  /\ ReturnTo("returned")
                  /\ UNCHANGED <<is_running, workflow, browsers, nFails, nSleeps>>
               \/ \* FacebookAutomationWorkflow(...) is constructed
                  /\ ~DailyLimitReached(s1)
                  /\ stats' = s1
                  /\ is_running' = TRUE
                  /\ workflow' = "workflow"
                  /\ browsers' = browsers + 1
                  /\ lastAttempt' = "running"
                  /\ pc' = "wf_login"
                  /\ UNCHANGED <<ret, nFails, nSleeps, exitVars>>
               \/ \* the constructor raises in setup_driver, no browser
                  \* open; self.workflow stays None.  (What a failure of a
                  \* later component leaves behind is followed in
                  \* SpecAttempt.)
                  /\ ~DailyLimitReached(s1)
                  /\ UNCHANGED browsers
                  /\ FailAttempt(s1, "failed")
    /\ UNCHANGED <<cfgVars, unitVars, loopVars, wfVars, pageVars,
                   shutdown_event, db>>

\* time.sleep(retry_delay_seconds) is over: the next iteration.
RetrySleep ==
    /\ pc = "sleeping"
    /\ pc' = "retry_top"
    /\ attempt' = attempt + 1
    /\ UNCHANGED <<cfgVars, unitVars, appVars, caller, cycles, wfVars,
                   pageVars,
                   obsVars, exitVars, shutdown_event, db>>

(***************************************************************************)
(* FacebookAutomationWorkflow.run_workflow.                                *)
(***************************************************************************)
\* SAVE_TO_DATABASE (environment, default 'true'): self.db is a database.
save_to_database == TRUE

\* What the article fetcher returns when it fails.
FailedToScrape == "Failed to scrape article"

\* The values of the optional fields of a PostData.  analysis stands for
\* analysis['output'], None for no analysis; "article" stands for any
\* non-empty string _scrape_article returns.
PostTexts == {"text"}
ArticleUrls == {None, "url"}
ArticleTexts == {None, "article"}
Analyses == {None, "comment"}

\* FacebookDatabase.post_exists: a sqlite3.Error is logged and answers False.
PostExists(d, id, sqlite_error) == IF sqlite_error THEN FALSE ELSE id \in d

\* _save_to_database: logs; the call that would store the post is commented out.
SaveToDatabase(d, pd) == d

\* _process_single_post: what it can return for one post element of page
\* page_name, <<>> for None and <<post_data>> otherwise.  An exception after
\* the post was opened is caught and post_data is returned as filled so far,
\* which is one of the records below.
ProcessSinglePost(page_name, d, sqlite_error) ==
    {<<>>}                       \* no id, already in the store, or not opened
    \cup
    {<<[post_id |-> id, page_name |-> page_name, post_text |-> t,
        article_url |-> u, article_text |-> a, analysis |-> an]>> :
        id \in {i \in PostIds :
                   ~(save_to_database /\ PostExists(d, i, sqlite_error))},
        t \in PostTexts, u \in ArticleUrls, a \in ArticleTexts, an \in Analyses}

\* The records _process_single_post can build (lines 384-398): no article
\* text without a URL, no analysis without both texts.
WellFormed(pd) ==
    /\ pd.article_url = None => pd.article_text = None
    /\ ~(Truthy(pd.article_text) /\ Truthy(pd.post_text)) => pd.analysis = None

\* _process_page, line 293: is the returned post kept?
Keep(r, ids) ==
    /\ r # <<>>
    /\ Truthy(r[1].post_id)
    /\ r[1].post_id \notin ids

\* _login
Login ==
    /\ pc = "wf_login"
    /\ \/ \* scraper.login() answered true
          /\ pc' = "wf_page"
          /\ results' = <<>>
          /\ page_idx' = 1
          /\ UNCHANGED <<appVars, obsVars, exitVars>>
       \/ \* it answered false or raised: RuntimeError leaves run_workflow
          /\ browsers' = browsers - 1
          /\ FailAttempt(stats, "login_failed")
          /\ UNCHANGED <<clock, nAttempts, wfVars>>
    /\ UNCHANGED <<cfgVars, unitVars, loopVars, pageVars, shutdown_event, db>>

\* The top of the page loop of run_workflow, and _process_page down to the
\* post loop.
PageTop ==
    /\ pc = "wf_page"
    /\ \/ \* all pages done (line 216), or shutdown requested (line 198)
          /\ page_idx > Len(facebook_pages) \/ shutdown_event
          /\ CycleSuccess(results)
          /\ NoWorkflowLocals
          /\ UNCHANGED <<clock, pageVars>>
       \/ \* navigation or discovery raised (caught at line 311), or no post
          \* was found (line 270): the page adds nothing
          /\ page_idx <= Len(facebook_pages) /\ ~shutdown_event
          /\ page_idx' = page_idx + 1
          /\ UNCHANGED <<appVars, results, pageVars, obsVars, exitVars, pc>>
       \/ \* _load_initial_posts found n post elements
          /\ page_idx <= Len(facebook_pages) /\ ~shutdown_event
          /\ \E n \in 1..MaxPostsFound : posts' = n
          /\ post_idx' = 1
          /\ page_results' = <<>>
          /\ processed_ids' = {}
          /\ processed_count' = 0
          /\ pc' = "wf_post"
          /\ UNCHANGED <<appVars, wfVars, obsVars, exitVars>>
    /\ UNCHANGED <<cfgVars, unitVars, loopVars, shutdown_event, db>>

\* The top of the post loop of _process_page, and one post.
PostTop ==
    /\ pc = "wf_post"
    /\ \/ \* the loop ends, shutdown is requested (line 281) or the page's
          \* maximum is reached (line 284): results.extend(page_results)
          /\ \/ post_idx > posts
             \/ shutdown_event
             \/ processed_count >= max_posts_per_page
          /\ results' = results \o page_results
          /\ page_idx' = page_idx + 1
          /\ pc' = "wf_page"
          /\ NoPageLocals
          /\ UNCHANGED db
       \/ /\ post_idx <= posts
          /\ ~shutdown_event
          /\ processed_count < max_posts_per_page
          /\ \E sqlite_error \in BOOLEAN :
             \E r \in ProcessSinglePost(facebook_pages[page_idx], db,
                                        sqlite_error) :
                /\ r # <<>> => WellFormed(r[1])
                /\ IF Keep(r, processed_ids)
                   THEN /\ page_results' = Append(page_results, r[1])
                        /\ processed_ids' = processed_ids \cup {r[1].post_id}
                        /\ processed_count' = processed_count + 1
                        /\ db' = IF save_to_database
                                 THEN SaveToDatabase(db, r[1]) ELSE db
                   ELSE UNCHANGED <<page_results, processed_ids,
                                    processed_count, db>>
          /\ post_idx' = post_idx + 1
          /\ UNCHANGED <<posts, wfVars, pc>>
    /\ UNCHANGED <<cfgVars, unitVars, appVars, loopVars, obsVars, exitVars,
                   shutdown_event>>

(***************************************************************************)
(* _run_scheduled: the scheduler loop.                                     *)
(***************************************************************************)
\* One iteration of the loop of _run_scheduled (lines 120-129), or its exit
\* and stop() (lines 131-132).
SchedulerLoop ==
    /\ pc = "sched_loop"
    /\ \/ \* shutdown requested: leave the loop, stop()
          /\ shutdown_event
          /\ pc' = "stopped"
          /\ exit_code' = 0
          /\ printed' = TRUE
          /\ UNCHANGED <<loopVars, obsVars>>
       \/ \* run_pending(): the job is due
          /\ ~shutdown_event
          /\ cycles < MaxCycles
          /\ BeginCall("pending")
          /\ UNCHANGED exitVars
    /\ UNCHANGED <<cfgVars, unitVars, appVars, wfVars, pageVars,
                   shutdown_event, db>>

Next ==
    \/ Start
    \/ SignalHandler
    \/ RetryShutdown
    \/ ExecuteWorkflow
    \/ RetrySleep
    \/ Login
    \/ PageTop
    \/ PostTop
    \/ SchedulerLoop

Spec == Init /\ [][Next]_vars

(***************************************************************************)
(* _reset_daily_stats_if_needed on its own, over all small inputs.         *)
(***************************************************************************)
\* The daily counters tried are 0..MaxDaily.
MaxDaily == 2

\* The statistics the function is called with.
ResetInputs ==
    {[InitStats EXCEPT !.total_runs = 1,
                       !.successful_runs = 1,
                       !.total_posts_processed = MaxDaily,
                       !.total_comments_posted = MaxDaily,
                       !.total_articles_analyzed = MaxDaily,
                       !.daily_posts_processed = dp,
                       !.daily_comments_posted = dc,
                       !.last_run_time = lrt] :
        dp \in 0..MaxDaily, dc \in 0..MaxDaily,
        lrt \in {NoTime} \cup {strftime(t) : t \in DateTimes}}

InitReset ==
    /\ run_mode = "single"
    /\ max_retries = 1
    /\ enable_comments = TRUE
    /\ stats \in ResetInputs
    /\ shutdown_event = FALSE
    /\ is_running = TRUE
    /\ workflow = None
    /\ browsers = 0
    /\ db = InitialDb
    /\ clock \in {Trunc(t) : t \in DateTimes}
    /\ pc = "reset_call"
    /\ caller = "single"
    /\ attempt = 0
    /\ cycles = 1
    /\ results = <<>>
    /\ page_idx = 0
    /\ page_results = <<>>
    /\ processed_ids = {}
    /\ processed_count = 0
    /\ posts = 0
    /\ post_idx = 0
    /\ ret = "running"
    /\ nAttempts = 1
    /\ nFails = 0
    /\ nSleeps = 0
    /\ lastAttempt = "running"
    /\ exit_code = -1
    /\ printed = FALSE
    /\ DbIdle /\ StepIdle /\ LoginIdle /\ TextIdle

\* One call of _reset_daily_stats_if_needed; clock' is what its now() read.
ResetCall ==
    /\ pc = "reset_call"
    /\ \E now \in NowFrom(clock) :
          /\ stats' = ResetDailyStatsIfNeeded(stats, now)
          /\ clock' = now
    /\ pc' = "reset_done"
    /\ UNCHANGED <<cfgVars, unitVars, is_running, workflow, browsers, loopVars,
                   wfVars,
                   pageVars, obsVars, exitVars, shutdown_event, db>>

NextReset == ResetCall

SpecReset == InitReset /\ [][NextReset]_vars

(***************************************************************************)
(* The claims.                                                             *)
(***************************************************************************)
\* A step that is one call of _execute_workflow.
AttemptStep == pc = "retry_top" /\ nAttempts' = nAttempts + 1

\* C1: when an attempt succeeds after k failed ones and the shutdown flag
\* is not set, _execute_workflow_with_retries has returned normally after
\* exactly k+1 attempts and exactly k retry-delay sleeps.
C1_SuccessAfterRetries ==
    (lastAttempt = "ok" /\ ~shutdown_event) =>
        /\ ret = "returned"
        /\ pc \in {"exited", "sched_loop"}
        /\ nFails < max_retries
        /\ nAttempts = nFails + 1
        /\ nSleeps = nFails

\* C1, its case: one more attempt was allowed, all the earlier ones failed
\* and were slept after, then the last one succeeded.
C1_Witness ==
    /\ lastAttempt = "ok"
    /\ ~shutdown_event
    /\ max_retries = MaxRetriesEnv
    /\ nFails = max_retries - 1
    /\ nSleeps = nFails
    /\ ret = "returned"

\* C2: when all max_retries attempts of a call have failed and the shutdown
\* flag is not set, there were exactly max_retries attempts and
\* max_retries - 1 sleeps, and the exception has reached the caller.
C2_AllAttemptsFail ==
    (nFails = max_retries /\ ~shutdown_event) =>
        /\ ret = "raised"
        /\ pc \in {"exited", "crashed"}
        /\ nAttempts = max_retries
        /\ nSleeps = max_retries - 1

\* C2, its case: the largest number of attempts, all failed.
C2_Witness ==
    /\ nFails = max_retries
    /\ max_retries = MaxRetriesEnv
    /\ ~shutdown_event
    /\ ret = "raised"
    /\ nSleeps = max_retries - 1

\* C3: in scheduled mode a cycle that exhausts its retries is skipped and
\* the scheduler loop keeps running (until shutdown makes it stop).
C3_ScheduleContinues ==
    (run_mode = "scheduled" /\ ret = "raised") =>
        pc \in {"sched_loop", "stopped"}

\* C4: in single-run mode the process exits with a non-zero status when all
\* attempts failed and with 0 when an attempt succeeded, and the statistics
\* are printed before it ends.
C4_SingleRunExit ==
    (run_mode = "single" /\ exit_code # -1) =>
        /\ pc = "exited"
        /\ printed
        /\ nFails = max_retries => exit_code = 1
        /\ lastAttempt \in {"ok", "skipped"} => exit_code = 0

\* C4, its case: a single run whose attempts all failed has exited.
C4_Witness ==
    /\ run_mode = "single"
    /\ pc = "exited"
    /\ nFails = max_retries
    /\ exit_code = 1
    /\ printed

\* What a skipped cycle looks like: no workflow and no browser session is
\* created (so no login, navigation or extraction), the counters and
\* failed_runs stay as they were, nothing is raised.
SkippedCycle ==
    /\ lastAttempt' = "skipped"
    /\ ret' = "returned"
    /\ pc' \in {"exited", "sched_loop"}
    /\ workflow' = None
    /\ browsers' = browsers
    /\ is_running' = FALSE
    /\ stats'.total_posts_processed = stats.total_posts_processed
    /\ stats'.total_comments_posted = stats.total_comments_posted
    /\ stats'.total_articles_analyzed = stats.total_articles_analyzed
    /\ stats'.daily_posts_processed = stats.daily_posts_processed
    /\ stats'.daily_comments_posted = stats.daily_comments_posted
    /\ stats'.failed_runs = stats.failed_runs
    /\ stats'.errors = stats.errors

\* C5 as stated: a cycle that starts with a daily counter at its limit is
\* skipped.
C5_SkipAtLimit ==
    [][(/\ AttemptStep
        /\ \/ stats.daily_posts_processed >= daily_post_limit
           \/ enable_comments
              /\ stats.daily_comments_posted >= daily_comment_limit)
       => SkippedCycle]_vars

\* C5 as amended: a cycle whose limit check, which comes after the new-day
\* reset, finds a daily counter at its limit is skipped.  (No branch of
\* the cycle start changes a daily counter after the check, so the values
\* checked are those of stats'.)
C5_SkipAtLimitCheck ==
    [][(/\ AttemptStep
        /\ \/ stats'.daily_posts_processed >= daily_post_limit
           \/ enable_comments
              /\ stats'.daily_comments_posted >= daily_comment_limit)
       => SkippedCycle]_vars

\* C5, its case: a cycle was skipped with the daily post limit reached.
C5_Witness ==
    /\ lastAttempt = "skipped"
    /\ ret = "returned"
    /\ stats.daily_posts_processed >= daily_post_limit
    /\ workflow = None

\* C6: a cycle skipped for a daily limit increments successful_runs by one.
C6_SkipCountsAsSuccess ==
    [][(AttemptStep /\ lastAttempt' = "skipped")
       => stats'.successful_runs = stats.successful_runs + 1]_vars

\* C7: a cycle that starts on a later date than the recorded last run has
\* its daily counters reset to zero before the limit check, and is not
\* skipped for a limit reached on the earlier day.
C7_NewDayResets ==
    [][(/\ AttemptStep
        /\ stats.last_run_time # NoTime
        /\ stats.last_run_time.ymd < stats'.last_run_time.ymd)
       => /\ stats'.daily_posts_processed = 0
          /\ stats'.daily_comments_posted = 0
          /\ lastAttempt' # "skipped"]_vars

\* C8: _reset_daily_stats_if_needed zeroes both daily counters when the date
\* of last_run_time is strictly before the current date, leaves them alone
\* when it is the same date or no last run is recorded, and never touches
\* another statistic.
C8_ResetContract ==
    [][pc = "reset_call" =>
        LET newDay == /\ stats.last_run_time # NoTime
                      /\ stats.last_run_time.ymd < clock'.date
        IN /\ newDay => /\ stats'.daily_posts_processed = 0
                        /\ stats'.daily_comments_posted = 0
           /\ ~newDay => /\ stats'.daily_posts_processed
                               = stats.daily_posts_processed
                         /\ stats'.daily_comments_posted
                               = stats.daily_comments_posted
           /\ [stats' EXCEPT
                  !.daily_posts_processed = stats.daily_posts_processed,
                  !.daily_comments_posted = stats.daily_comments_posted]
              = stats]_vars

\* C8, its case: the reset ran on a later date and zeroed the counters.
C8_Witness ==
    /\ pc = "reset_done"
    /\ stats.last_run_time # NoTime
    /\ stats.last_run_time.ymd < clock.date
    /\ stats.daily_posts_processed = 0
    /\ stats.daily_comments_posted = 0
    /\ stats.total_posts_processed = MaxDaily

\* C9: the daily counters never exceed the daily limits.
C9_DailyCaps ==
    /\ stats.daily_posts_processed <= daily_post_limit
    /\ stats.daily_comments_posted <= daily_comment_limit

\* C10: the results of one run never hold two records with the same post_id.
C10_NoDuplicateIds ==
    LET all == results \o page_results IN
    \A i, j \in 1..Len(all) : i # j => all[i].post_id # all[j].post_id

\* C11: with saving enabled, every post that was processed and appended to
\* a run's results has an entry in the store (so post_exists answers true
\* for it in every later cycle).
C11_StoreUpdated ==
    save_to_database =>
        LET all == results \o page_results IN
        \A i \in 1..Len(all) : all[i].post_id \in db

(***************************************************************************)
(* The stand-alone specifications: one component driven on its own, the    *)
(* application around it at rest.                                          *)
(***************************************************************************)
\* The application's variables while a component is driven on its own.
AppIdle ==
    /\ run_mode = "single"
    /\ max_retries = 1
    /\ stats = InitStats
    /\ is_running = FALSE
    /\ workflow = None
    /\ browsers = 0
    /\ clock = [date |-> 0, second |-> 0, microsecond |-> 0]
    /\ caller = None
    /\ attempt = 0
    /\ cycles = 0
    /\ results = <<>>
    /\ page_idx = 0
    /\ ret = None
    /\ nAttempts = 0
    /\ nFails = 0
    /\ nSleeps = 0
    /\ lastAttempt = None
    /\ exit_code = -1
    /\ printed = FALSE

\* The locals of _process_page outside a call.
PageIdle ==
    /\ page_results = <<>>
    /\ processed_ids = {}
    /\ processed_count = 0
    /\ posts = 0
    /\ post_idx = 0

(***************************************************************************)
(* FacebookDatabase: any sequence of insert_post, update_post_success and  *)
(* post_exists calls on a store that starts empty.                         *)
(***************************************************************************)
\* The values of the columns date, page and success.
RowDates == {"2024-01-01"}
RowPages == {facebook_pages[i] : i \in 1..Len(facebook_pages)}
RowSuccess == {0, 1}
Rows == [date : RowDates, page : RowPages, success : RowSuccess]

\* Mutant of InsertRow: INSERT OR REPLACE, the new row takes the old one's
\* place.
InsertOrReplaceRow(r, id, row, sqlite_error) ==
    IF sqlite_error
    THEN [rows |-> r, ok |-> FALSE]
    ELSE [rows |-> [i \in DOMAIN r \cup {id} |->
                       IF i = id THEN row ELSE r[i]],
          ok |-> TRUE]

\* _execute_query for the INSERT of insert_post.  The id is the primary key:
\* a second row with it is an sqlite3.IntegrityError; that or any other
\* sqlite3.Error (sqlite_error) is rolled back and re-raised.
InsertRow(r, id, row, sqlite_error) ==
    IF id \in DOMAIN r \/ sqlite_error
    THEN [rows |-> r, ok |-> FALSE]
    ELSE [rows |-> [i \in DOMAIN r \cup {id} |->
                       IF i = id THEN row ELSE r[i]],
          ok |-> TRUE]

\* _execute_query for the UPDATE of update_post_success: it changes the
\* rows with that id, none if there is none.
UpdateRow(r, id, success, sqlite_error) ==
    IF sqlite_error
    THEN [rows |-> r, ok |-> FALSE]
    ELSE [rows |-> [i \in DOMAIN r |->
                       IF i = id THEN [r[i] EXCEPT !.success = success]
                       ELSE r[i]],
          ok |-> TRUE]

InitDb ==
    /\ AppIdle /\ PageIdle /\ StepIdle /\ LoginIdle /\ TextIdle
    /\ shutdown_event = FALSE
    /\ db = {}
    /\ pc = "db"
    /\ enable_comments = TRUE
    /\ DbIdle

\* What a call on the store leaves alone.
DbFrame ==
    UNCHANGED <<cfgVars, appVars, loopVars, wfVars, pageVars, obsVars,
                exitVars, shutdown_event, db, pc, stepVars, textVars,
                loginVars>>

\* insert_post: True when the row went in, False on any sqlite3.Error.
insert_post ==
    \E id \in PostIds, row \in Rows, sqlite_error \in BOOLEAN :
        LET q == InsertRow(rows, id, row, sqlite_error) IN
        /\ rows' = q.rows
        /\ inserted' = IF q.ok THEN inserted \cup {id} ELSE inserted
        /\ op' = [name |-> "insert_post", id |-> id, row |-> row,
                  ret |-> q.ok]
        /\ DbFrame

\* update_post_success: True unless the UPDATE raised.
update_post_success ==
    \E id \in PostIds, success \in RowSuccess, sqlite_error \in BOOLEAN :
        LET q == UpdateRow(rows, id, success, sqlite_error) IN
        /\ rows' = q.rows
        /\ op' = [name |-> "update_post_success", id |-> id,
                  row |-> [success |-> success], ret |-> q.ok]
        /\ UNCHANGED inserted
        /\ DbFrame

\* post_exists: is there a row with the id; False when the SELECT raised.
post_exists ==
    \E id \in PostIds, sqlite_error \in BOOLEAN :
        /\ op' = [name |-> "post_exists", id |-> id, row |-> None,
                  ret |-> PostExists(DOMAIN rows, id, sqlite_error)]
        /\ UNCHANGED <<rows, inserted>>
        /\ DbFrame

NextDb ==
    \/ insert_post
    \/ update_post_success
    \/ post_exists

SpecDb == InitDb /\ [][NextDb]_vars

\* C12: an insert_post for an id that is already present returns False and
\* leaves the row's date, page and success as they were, and post_exists
\* answers true only for an id whose insert_post returned True earlier.
C12_StoreContract ==
    [][/\ (op'.name = "insert_post" /\ op'.id \in DOMAIN rows)
            => /\ op'.ret = FALSE
               /\ rows' = rows
       /\ (op'.name = "post_exists" /\ op'.ret = TRUE)
            => op'.id \in inserted]_vars

\* C12, its case: a second insert of a present id, with other column
\* values, was refused and the first row is still there.
C12_Witness ==
    /\ op.name = "insert_post"
    /\ op.ret = FALSE
    /\ op.id \in inserted
    /\ op.id \in DOMAIN rows
    /\ rows[op.id] # op.row

(***************************************************************************)
(* One call of run_workflow, step by step: the page loop, _process_page    *)
(* with _load_initial_posts, and _process_single_post with the URL         *)
(* strategies of _extract_article_url.                                     *)
(***************************************************************************)
\* FacebookAutomationWorkflow.__init__: the discovery budget.
max_initial_post_attempts == 3
min_posts_required == 1
\* Tabs open besides the main one are counted up to MaxTabs.
MaxTabs == 2

\* Mutant of ShutdownRequested: the flag is never looked at.
ShutdownIgnored == FALSE

\* self.shutdown_event.is_set()
ShutdownRequested == shutdown_event

\* Mutant of PageExceptTo: no except clause in _process_page.
PageExceptPropagates == "r_raised"

\* Where an exception inside _process_page ends up: the except clause at
\* lines 311-312 logs it and the function returns its results (line 314).
PageExceptTo == "r_extend"

\* Where _process_single_post goes after its except clause (lines 402-409):
\* to its return statement, whatever close_all_other_tabs did.
PostExceptTo == "p_keep"

\* Mutant of MaxPostsReached: ">" for ">=".
MaxPostsExceeded(n) == n > max_posts_per_page

\* Line 283: the page has its maximum of processed posts.
MaxPostsReached(n) == n >= max_posts_per_page

\* Mutant of MeetsMinimum: ">" for ">=".
ExceedsMinimum(n) == n > min_posts_required

\* Line 333: the query found enough posts.
MeetsMinimum(n) == n >= min_posts_required

\* PostData(page_name=page_name)
NewPostData(page_name) ==
    [post_id |-> None, page_name |-> page_name, post_text |-> None,
     article_url |-> None, article_text |-> None, analysis |-> None]

\* Mutant of strategies: the text strategy first.
strategiesTextFirst == <<"post_text", "post_card", "comment_section">>

\* _extract_article_url: the strategies, in the order they are tried.
strategies == <<"post_card", "post_text", "comment_section">>

\* What a strategy can do: raise, return nothing (None or ''), or return a
\* URL.  The text strategy never raises and returns None without a text.
StrategyOutcomes(strategy, post_text) ==
    CASE strategy = "post_card" -> {"raise", None, "", "url_card"}
      [] strategy = "post_text" ->
            IF Truthy(post_text) THEN {None, "url_text"} ELSE {None}
      [] strategy = "comment_section" -> {"raise", None, "url_comment"}

\* Line 578, "if url:", reached only when the strategy did not raise.
IsUrl(out) == out # "raise" /\ Truthy(out)

\* What _extract_post_text can return.
PostTextsRead == {None, "text"}

\* What _scrape_article can return: None when it raised, the article's text
\* or, the fetcher having caught its own exception, the fetcher's message.
ArticleTextsRead == ArticleTexts \cup {FailedToScrape}

RunFrame ==
    UNCHANGED <<cfgVars, appVars, loopVars, obsVars, exitVars,
                shutdown_event, dbVars, textVars, loginVars>>

InitRun ==
    /\ AppIdle /\ PageIdle /\ StepIdle /\ LoginIdle /\ DbIdle /\ TextIdle
    /\ enable_comments \in BOOLEAN
    /\ shutdown_event = FALSE
    /\ db = InitialDb
    /\ pc = "r_login"

\* An exception reaches the except clause of _process_page.
PageRaise ==
    /\ pc' = PageExceptTo
    /\ page_exc' = page_exc \cup {facebook_pages[page_idx]}

\* run_workflow, step 1: _login() is false, or the page loop starts.
login_step ==
    /\ pc = "r_login"
    /\ \/ /\ pc' = "r_page_top"
          /\ results' = <<>>
          /\ page_idx' = 1
       \/ /\ pc' = "r_raised"
          /\ UNCHANGED wfVars
    /\ UNCHANGED <<pageVars, stepVars, db>>
    /\ RunFrame

\* run_workflow, the top of the page loop (lines 193-201) and its return.
run_workflow ==
    /\ pc = "r_page_top"
    /\ IF page_idx > Len(facebook_pages) \/ ShutdownRequested
       THEN pc' = "r_returned"
       ELSE pc' = "p_navigate"
    /\ UNCHANGED <<wfVars, pageVars, stepVars, db>>
    /\ RunFrame

\* _process_page, lines 256-263: browser.get(page_url).
navigate ==
    /\ pc = "p_navigate"
    /\ navigated' = Append(navigated, facebook_pages[page_idx])
    /\ \/ /\ pc' = "l_scroll"
          /\ UNCHANGED page_exc
       \/ PageRaise
    /\ UNCHANGED <<wfVars, pageVars, post_data, tabs, found, scrolls, tried,
                   post_exc, close_all, waits, published, db>>
    /\ RunFrame

\* _load_initial_posts, lines 323-327: the initial scroll.
initial_scroll ==
    /\ pc = "l_scroll"
    /\ scrolls' = <<1>>
    /\ found' = <<>>
    /\ pc' = "l_query"
    /\ UNCHANGED published
    /\ UNCHANGED <<wfVars, pageVars, post_data, tabs, navigated, waits, tried,
                   post_exc, close_all, page_exc, db>>
    /\ RunFrame

\* _load_initial_posts, lines 330-335: one query.  select_posts answers []
\* on a timeout; another exception leaves _load_initial_posts.
select_posts ==
    /\ pc = "l_query"
    /\ \/ \E n \in 0..MaxPostsFound :
             /\ found' = Append(found, n)
             /\ posts' = n
             /\ pc' = IF MeetsMinimum(n) THEN "p_loaded" ELSE "l_scroll_more"
             /\ UNCHANGED page_exc
       \/ /\ PageRaise
          /\ UNCHANGED <<found, posts>>
    /\ UNCHANGED published
    /\ UNCHANGED <<wfVars, page_results, processed_ids, processed_count,
                   post_idx, post_data, tabs, navigated, waits, scrolls,
                   tried,
                   post_exc, close_all, db>>
    /\ RunFrame

\* _load_initial_posts, lines 337-344: scroll twice, then the next attempt
\* or, the attempts used up, the else clause of the loop and the return.
scroll_page ==
    /\ pc = "l_scroll_more"
    /\ scrolls' = Append(scrolls, 2)
    /\ pc' = IF Len(found) < max_initial_post_attempts
             THEN "l_query" ELSE "p_loaded"
    /\ UNCHANGED published
    /\ UNCHANGED <<wfVars, pageVars, post_data, tabs, navigated, waits, found,
                   tried,
                   post_exc, close_all, page_exc, db>>
    /\ RunFrame

\* _process_page, lines 266-274: _load_initial_posts has returned (and its
\* queries and scrolls are history).
posts_loaded ==
    /\ pc = "p_loaded"
    /\ IF posts = 0
       THEN /\ pc' = "r_extend"
            /\ UNCHANGED <<processed_ids, processed_count, post_idx>>
       ELSE /\ pc' = "p_post_top"
            /\ processed_count' = 0
            /\ processed_ids' = {}
            /\ post_idx' = 1
    /\ found' = <<>>
    /\ scrolls' = <<>>
    /\ UNCHANGED <<wfVars, page_results, posts, post_data, tabs, navigated,
                   tried, post_exc, close_all, page_exc, waits, published, db>>
    /\ RunFrame

\* _process_page, the top of the post loop (lines 276-291).
process_page ==
    /\ pc = "p_post_top"
    /\ IF \/ ShutdownRequested
          \/ post_idx > posts
          \/ MaxPostsReached(processed_count)
       THEN /\ pc' = "r_extend"
            /\ UNCHANGED <<post_data, tried, post_exc, close_all>>
       ELSE /\ pc' = "s_extract_id"
            /\ post_data' = <<NewPostData(facebook_pages[page_idx])>>
            /\ tried' = <<>>
            /\ post_exc' = None
            /\ close_all' = FALSE
    /\ UNCHANGED published
    /\ UNCHANGED <<wfVars, pageVars, tabs, navigated, waits, found, scrolls,
                   page_exc, db>>
    /\ RunFrame

\* _process_page, lines 293-309: the returned post is kept or not; the
\* rest of the loop body can raise as well.
keep_post ==
    /\ pc = "p_keep"
    /\ IF Keep(post_data, processed_ids)
       THEN /\ page_results' = Append(page_results, post_data[1])
            /\ processed_ids' = processed_ids \cup {post_data[1].post_id}
            /\ processed_count' = processed_count + 1
            /\ db' = IF save_to_database
                     THEN SaveToDatabase(db, post_data[1]) ELSE db
            /\ waits' = waits + 1
       ELSE UNCHANGED <<page_results, processed_ids, processed_count, db,
                        waits>>
    /\ UNCHANGED published
    /\ post_data' = <<>>
    /\ post_exc' = None
    /\ close_all' = FALSE
    /\ \/ /\ pc' = "p_post_top"
          /\ post_idx' = post_idx + 1
          /\ UNCHANGED page_exc
       \/ /\ PageRaise
          /\ UNCHANGED post_idx
    /\ UNCHANGED <<wfVars, posts, tabs, navigated, found, scrolls, tried>>
    /\ RunFrame

\* run_workflow, line 206: results.extend(page_results), and the next page.
extend_results ==
    /\ pc = "r_extend"
    /\ results' = results \o page_results
    /\ page_idx' = page_idx + 1
    /\ NoPageLocals
    /\ found' = <<>>
    /\ scrolls' = <<>>
    /\ tried' = <<>>
    /\ post_exc' = None
    /\ close_all' = FALSE
    /\ waits' = 0
    /\ UNCHANGED published
    /\ pc' = "r_page_top"
    /\ UNCHANGED <<post_data, tabs, navigated, page_exc, db>>
    /\ RunFrame

\* _process_single_post returns None.
ReturnNone ==
    /\ post_data' = <<>>
    /\ pc' = "p_keep"

\* An exception reaches the except clause of _process_single_post.
PostRaise(step) ==
    /\ pc' = "s_except"
    /\ post_exc' = step

\* What the steps of _process_single_post leave alone.
PostFrame ==
    /\ UNCHANGED published
    /\ UNCHANGED <<wfVars, pageVars, navigated, waits, found, scrolls,
                   close_all,
                   page_exc, db>>
    /\ RunFrame

\* Lines 368-372: _extract_post_id, which answers None on any exception.
wf_extract_post_id ==
    /\ pc = "s_extract_id"
    /\ \E id \in PostIds \cup {None} :
          IF ~Truthy(id)
          THEN ReturnNone
          ELSE /\ post_data' = <<[post_data[1] EXCEPT !.post_id = id]>>
               /\ pc' = "s_lookup"
    /\ UNCHANGED <<tabs, tried, post_exc>>
    /\ PostFrame

\* Lines 373-376: the store lookup.  post_exists catches sqlite3.Error
\* only; any other exception is one of _process_single_post.
lookup_post ==
    /\ pc = "s_lookup"
    /\ \/ /\ \E sqlite_error \in BOOLEAN :
                IF save_to_database
                   /\ PostExists(db, post_data[1].post_id, sqlite_error)
                THEN ReturnNone
                ELSE /\ pc' = "s_open"
                     /\ UNCHANGED post_data
          /\ UNCHANGED post_exc
       \/ /\ PostRaise("post_exists")
          /\ UNCHANGED post_data
    /\ UNCHANGED <<tabs, tried>>
    /\ PostFrame

\* Lines 378-381: _open_post_in_new_tab.  The scraper's function answers
\* False only from its own except clause, that is, when open_new_tab
\* raised: before window.open, or after it, in get(url), with the new tab
\* open and selected.  Line 381 then returns None.
open_post_in_new_tab ==
    /\ pc = "s_open"
    /\ \/ /\ tabs < MaxTabs
          /\ tabs' = tabs + 1
          /\ pc' = "s_content"
          /\ UNCHANGED <<post_data, post_exc>>
       \/ /\ \E t \in {tabs, tabs + 1} :
                /\ t <= MaxTabs
                /\ tabs' = t
          /\ post_exc' = "open_post_in_new_tab"
          /\ ReturnNone
    /\ UNCHANGED tried
    /\ PostFrame

\* Line 384 and _extract_post_content down to the post text: without the
\* dialog both results are None, otherwise the URL strategies follow.
extract_post_content ==
    /\ pc = "s_content"
    /\ \/ /\ pc' = "s_close"
          /\ UNCHANGED post_data
       \/ \E t \in PostTextsRead :
             /\ post_data' = <<[post_data[1] EXCEPT !.post_text = t]>>
             /\ pc' = "u_try"
    /\ tried' = <<>>
    /\ UNCHANGED <<tabs, post_exc>>
    /\ PostFrame

\* _extract_article_url: one iteration of its loop over the strategies.
extract_article_url ==
    /\ pc = "u_try"
    /\ LET k == Len(tried) + 1
           strategy == strategies[k]
       IN \E out \in StrategyOutcomes(strategy, post_data[1].post_text) :
             /\ tried' = Append(tried, [strategy |-> strategy, out |-> out])
             /\ IF IsUrl(out)
                THEN /\ post_data' =
                           <<[post_data[1] EXCEPT !.article_url = out]>>
                     /\ pc' = "s_article"
                ELSE /\ UNCHANGED post_data
                     /\ pc' = IF k = Len(strategies) THEN "s_close" ELSE pc
    /\ UNCHANGED <<tabs, post_exc>>
    /\ PostFrame

\* Lines 387-390: _scrape_article, None on any exception; a failure can
\* leave the article tab open or take the post's tab with it.
scrape_article ==
    /\ pc = "s_article"
    /\ \E a \in ArticleTextsRead :
          /\ post_data' = <<[post_data[1] EXCEPT !.article_text = a]>>
          /\ IF Truthy(a)
             THEN UNCHANGED tabs
             ELSE \E t \in {tabs - 1, tabs, tabs + 1} :
                     /\ t \in 0..MaxTabs
                     /\ tabs' = t
          /\ pc' = IF Truthy(a) /\ Truthy(post_data[1].post_text)
                   THEN "s_analyze" ELSE "s_close"
    /\ tried' = <<>>
    /\ UNCHANGED post_exc
    /\ PostFrame

\* Lines 390-394: _analyze_content, None on any exception.
analyze_content ==
    /\ pc = "s_analyze"
    /\ \E an \in Analyses :
          /\ post_data' = <<[post_data[1] EXCEPT !.analysis = an]>>
          /\ pc' = IF enable_comments /\ Truthy(an)
                   THEN "s_comment" ELSE "s_close"
    /\ UNCHANGED <<tabs, tried, post_exc>>
    /\ PostFrame

\* Lines 396-398: _post_comment, which answers True when the comment was
\* typed and False after any exception; its answer is not looked at.
post_comment ==
    /\ pc = "s_comment"
    /\ \E posted \in BOOLEAN :
          published' = IF posted THEN published + 1 ELSE published
    /\ pc' = "s_close"
    /\ UNCHANGED <<post_data, tabs, tried, post_exc>>
    /\ UNCHANGED <<wfVars, pageVars, navigated, waits, found, scrolls,
                   close_all, page_exc, db>>
    /\ RunFrame

\* Line 401: browser.close_current_tab(), which can raise.
close_current_tab ==
    /\ pc = "s_close"
    /\ \/ /\ tabs' = IF tabs > 0 THEN tabs - 1 ELSE tabs
          /\ pc' = "p_keep"
          /\ UNCHANGED post_exc
       \/ /\ PostRaise("close_current_tab")
          /\ UNCHANGED tabs
    /\ tried' = <<>>
    /\ UNCHANGED post_data
    /\ PostFrame

\* Lines 403-409: the except clause; close_all_other_tabs closes the tabs
\* or raises, which the bare except around it swallows.
close_all_other_tabs ==
    /\ pc = "s_except"
    /\ \E t \in {0, tabs} : tabs' = t
    /\ close_all' = TRUE
    /\ pc' = PostExceptTo
    /\ UNCHANGED published
    /\ UNCHANGED <<wfVars, pageVars, navigated, waits, found, scrolls, page_exc,
                   db,
                   post_data, tried, post_exc>>
    /\ RunFrame

NextRun ==
    \/ SignalHandler
    \/ login_step
    \/ run_workflow
    \/ navigate
    \/ initial_scroll
    \/ select_posts
    \/ scroll_page
    \/ posts_loaded
    \/ process_page
    \/ wf_extract_post_id
    \/ lookup_post
    \/ open_post_in_new_tab
    \/ extract_post_content
    \/ extract_article_url
    \/ scrape_article
    \/ analyze_content
    \/ post_comment
    \/ close_current_tab
    \/ close_all_other_tabs
    \/ keep_post
    \/ extend_results

SpecRun == InitRun /\ [][NextRun]_vars

\* C13: when the shutdown flag is set at the check at the top of a page
\* iteration, run_workflow returns the records gathered so far without
\* raising and navigates to no further page; when it is set at the check at
\* the top of a post iteration, _process_page processes no further post and
\* returns the page's records, which run_workflow adds to its results.
C13_ShutdownChecks ==
    [][/\ (pc = "r_page_top" /\ shutdown_event /\ pc' # pc)
            => /\ pc' = "r_returned"
               /\ results' = results
               /\ navigated' = navigated
       /\ (pc = "p_post_top" /\ shutdown_event /\ pc' # pc)
            => /\ pc' = "r_extend"
               /\ page_results' = page_results
               /\ results' = results
               /\ post_data' = post_data
       /\ (pc = "r_extend" /\ pc' # pc)
            => /\ pc' = "r_page_top"
               /\ results' = results \o page_results]_vars

\* C13, its case: the run has returned one record of the first page, the
\* flag set and the second page never navigated to.
C13_Witness ==
    /\ pc = "r_returned"
    /\ shutdown_event
    /\ navigated = <<facebook_pages[1]>>
    /\ Len(results) = 1
    /\ results[1].page_name = facebook_pages[1]

(***************************************************************************)
(* The application with a main thread that keeps running: every call it    *)
(* blocks in returns, so a step it can take is taken.  The signal handler  *)
(* runs only when a signal arrives.                                        *)
(***************************************************************************)
MainThread ==
    \/ Start
    \/ RetryShutdown
    \/ ExecuteWorkflow
    \/ RetrySleep
    \/ Login
    \/ PageTop
    \/ PostTop
    \/ SchedulerLoop

SpecLive == Init /\ [][Next]_vars /\ WF_vars(MainThread)

\* C14: in scheduled mode, once a signal has set the shutdown flag the
\* application eventually has left the scheduler loop and run stop() to its
\* end: the browser session closed and the final statistics printed.
C14_GracefulShutdown ==
    (run_mode = "scheduled" /\ shutdown_event)
        ~> (pc = "stopped" /\ browsers = 0 /\ printed)

\* The outcomes that count as a miss: an exception, None or ''.
IsMiss(out) == out = "raise" \/ ~Truthy(out)

\* C15: when _extract_article_url has returned, the strategies were invoked
\* in the order card, text, comment section; every strategy before the last
\* invoked missed; if the last invoked one returned a URL, that URL is the
\* result and no later strategy was invoked; otherwise all three were
\* invoked and the result is None.  It never raises.
C15_StrategyCascade ==
    (pc \in {"s_article", "s_close"} /\ tried # <<>>) =>
        LET n == Len(tried) IN
        /\ n <= 3
        /\ \A i \in 1..n :
              tried[i].strategy = <<"post_card", "post_text",
                                    "comment_section">>[i]
        /\ \A i \in 1..(n - 1) : IsMiss(tried[i].out)
        /\ IF IsMiss(tried[n].out)
           THEN /\ n = 3
                /\ post_data[1].article_url = None
                /\ pc = "s_close"
           ELSE /\ post_data[1].article_url = tried[n].out
                /\ pc = "s_article"

\* C15, its case: the card strategy raised, the text strategy returned a
\* URL, which is the result, and the comment-section strategy was not
\* invoked.
C15_Witness ==
    /\ pc = "s_article"
    /\ Len(tried) = 2
    /\ tried[1] = [strategy |-> "post_card", out |-> "raise"]
    /\ tried[2] = [strategy |-> "post_text", out |-> "url_text"]
    /\ post_data[1].article_url = "url_text"

\* C16: _load_initial_posts makes at most 3 queries.  When it has returned:
\* every query but the last found fewer than min_posts_required posts; if
\* the last one did too, there were exactly 3 queries, each followed by one
\* scroll of two steps after the single initial scroll, and the result is
\* empty; otherwise the last query's posts are the result and no query or
\* scroll came after it.
C16_DiscoveryTerminates ==
    /\ Len(found) <= 3
    /\ pc = "p_loaded" =>
          LET n == Len(found) IN
          /\ n \in 1..3
          /\ \A i \in 1..(n - 1) : found[i] < min_posts_required
          /\ IF found[n] < min_posts_required
             THEN /\ n = 3
                  /\ scrolls = <<1, 2, 2, 2>>
                  /\ posts = 0
             ELSE /\ scrolls = <<1>> \o [i \in 1..(n - 1) |-> 2]
                  /\ posts = found[n]

\* C16, its case: three queries found nothing and the empty result was
\* returned after the four scrolls.
C16_Witness ==
    /\ pc = "p_loaded"
    /\ found = <<0, 0, 0>>
    /\ scrolls = <<1, 2, 2, 2>>
    /\ posts = 0

(***************************************************************************)
(* URLUtils.  A string is a sequence of characters; the two patterns are   *)
(* matched the way re.search does it: the leftmost start position wins,    *)
(* the alternatives are tried in the order written, every quantifier is    *)
(* greedy.                                                                 *)
(***************************************************************************)
\* The texts tried are made of at most MaxTokens of the tokens below.
MaxTokens == 4

Http == <<"h", "t", "t", "p", ":", "/", "/">>
Https == <<"h", "t", "t", "p", "s", ":", "/", "/">>
Www == <<"w", "w", "w", ".">>
Domain == <<"a", ".", "b", "c">>

RECURSIVE Flatten(_)
Flatten(ts) == IF ts = <<>> THEN <<>> ELSE Head(ts) \o Flatten(Tail(ts))

\* The strings of 0..MaxTokens tokens of the set toks.
TextsOf(toks) ==
    {Flatten(ts) : ts \in UNION {[1..n -> toks] : n \in 0..MaxTokens}}

\* The character classes of the patterns.
IsLetter(c) == c \in {"a", "b", "c", "d", "f", "h", "i", "o", "p", "s", "t", "w"}
IsDigit(c) == c \in {"1"}
\* \S
IsNonSpace(c) == c # " "
\* \w
IsWord(c) == IsLetter(c) \/ IsDigit(c) \/ c = "_"
\* [a-zA-Z0-9.-]
IsHostChar(c) == IsLetter(c) \/ IsDigit(c) \/ c \in {".", "-"}

\* The literal lit is in s at position i.
StartsWith(s, i, lit) ==
    /\ i + Len(lit) - 1 <= Len(s)
    /\ SubSeq(s, i, i + Len(lit) - 1) = lit

\* The character classes of the two patterns, by name.
InClass(cls, c) ==
    CASE cls = "\\S" -> IsNonSpace(c)
      [] cls = "\\w" -> IsWord(c)
      [] cls = "[a-zA-Z]" -> IsLetter(c)
      [] cls = "[a-zA-Z0-9.-]" -> IsHostChar(c)

\* A greedy run: the last position of the longest run of characters of the
\* class cls that starts at i (i - 1 when there is none).
RunEnd(s, i, cls) ==
    CHOOSE e \in (i - 1)..Len(s) :
        /\ \A k \in i..e : InClass(cls, s[k])
        /\ e = Len(s) \/ ~InClass(cls, s[e + 1])

\* Mutant of MatchHttp: \S for \S+, one character after the scheme.
MatchHttpOneChar(s, i) ==
    LET j == IF StartsWith(s, i, Https) THEN i + Len(Https)
             ELSE IF StartsWith(s, i, Http) THEN i + Len(Http)
             ELSE 0
    IN IF j # 0 /\ RunEnd(s, j, "\\S") >= j THEN j ELSE 0

\* https?://\S+ at position i: the last position of the match, 0 for none.
MatchHttp(s, i) ==
    LET j == IF StartsWith(s, i, Https) THEN i + Len(Https)
             ELSE IF StartsWith(s, i, Http) THEN i + Len(Http)
             ELSE 0
    IN IF j # 0 /\ RunEnd(s, j, "\\S") >= j
       THEN RunEnd(s, j, "\\S") ELSE 0

\* www\.\S+ at position i.
MatchWww(s, i) ==
    LET j == i + Len(Www) IN
    IF StartsWith(s, i, Www) /\ RunEnd(s, j, "\\S") >= j
    THEN RunEnd(s, j, "\\S") ELSE 0

\* [a-zA-Z0-9.-]+\.[a-zA-Z]{2,}(?:/\S*)? at position i.  The first group is
\* greedy and gives back characters until a '.' followed by two or more
\* letters comes next; p is the last position it keeps.
MatchDomain(s, i) ==
    LET r == RunEnd(s, i, "[a-zA-Z0-9.-]")
        ok(p) == /\ p + 1 <= Len(s)
                 /\ s[p + 1] = "."
                 /\ RunEnd(s, p + 2, "[a-zA-Z]") >= p + 3
        ps == {p \in i..r : ok(p)}
    IN IF ps = {} THEN 0
       ELSE LET p == CHOOSE q \in ps : \A q2 \in ps : q2 <= q
                l == RunEnd(s, p + 2, "[a-zA-Z]")
            IN IF l + 1 <= Len(s) /\ s[l + 1] = "/"
               THEN RunEnd(s, l + 1, "\\S") ELSE l

\* The url_pattern of extract_url at position i: the first alternative that
\* matches.
MatchUrlAt(s, i) ==
    IF MatchHttp(s, i) # 0 THEN MatchHttp(s, i)
    ELSE IF MatchWww(s, i) # 0 THEN MatchWww(s, i)
    ELSE MatchDomain(s, i)

\* URLUtils.extract_url: re.search, then group(0) or None.
ExtractUrl(s) ==
    LET starts == {i \in 1..Len(s) : MatchUrlAt(s, i) # 0} IN
    IF starts = {} THEN NoMatch
    ELSE LET i == CHOOSE k \in starts : \A k2 \in starts : k <= k2
         IN SubSeq(s, i, MatchUrlAt(s, i))

UrlTokens == {Http, Https, Www, Domain, <<"a">>, <<".">>, <<" ">>, <<"/">>}

InitUrl ==
    /\ AppIdle /\ PageIdle /\ StepIdle /\ LoginIdle /\ DbIdle
    /\ enable_comments = TRUE
    /\ shutdown_event = FALSE
    /\ db = {}
    /\ pc = "url_call"
    /\ text \in TextsOf(UrlTokens)
    /\ match = NoMatch

\* What a URLUtils call leaves alone.
TextFrame ==
    UNCHANGED <<cfgVars, appVars, loopVars, wfVars, pageVars, obsVars,
                exitVars, shutdown_event, db, dbVars, stepVars, loginVars,
                text>>

extract_url ==
    /\ pc = "url_call"
    /\ match' = ExtractUrl(text)
    /\ pc' = "url_done"
    /\ TextFrame

NextUrl == extract_url

SpecUrl == InitUrl /\ [][NextUrl]_vars

\* The first position where http:// or https:// stands in s with a
\* character that is not white space after it, 0 for none.
FirstHttpUrl(s) ==
    LET at == {i \in 1..Len(s) :
                  \/ /\ StartsWith(s, i, Https)
                     /\ i + Len(Https) <= Len(s)
                     /\ s[i + Len(Https)] # " "
                  \/ /\ StartsWith(s, i, Http)
                     /\ i + Len(Http) <= Len(s)
                     /\ s[i + Len(Http)] # " "}
    IN IF at = {} THEN 0 ELSE CHOOSE i \in at : \A k \in at : i <= k

\* The part of s from position i up to the next white space or the end.
UpToSpace(s, i) ==
    SubSeq(s, i, CHOOSE e \in i..Len(s) :
                    /\ \A k \in i..e : s[k] # " "
                    /\ e = Len(s) \/ s[e + 1] = " ")

\* C17 as stated: for a text that contains an http:// or https:// URL,
\* extract_url returns the first such URL, whatever precedes it.
C17_FirstHttpUrl ==
    (pc = "url_done" /\ FirstHttpUrl(text) # 0) =>
        match = UpToSpace(text, FirstHttpUrl(text))

\* C17 as amended: when the first http:// or https:// that is followed by
\* a character other than white space has no '.' before it, extract_url
\* returns the text from there up to the next white space; for a text with
\* no such place and no '.' it returns none; and what it returns is never
\* empty and holds no white space.
C17_FirstHttpUrlNoDotBefore ==
    pc = "url_done" =>
        LET i == FirstHttpUrl(text)
            dots == {k \in 1..Len(text) : text[k] = "."}
        IN /\ (i # 0 /\ \A k \in dots : k > i)
                => match = UpToSpace(text, i)
           /\ (i = 0 /\ dots = {}) => match = NoMatch
           /\ \A k \in 1..Len(match) : match[k] # " "

\* C17, its case: a word, a space and an https URL with a path; the URL is
\* returned whole.
C17_Witness ==
    /\ pc = "url_done"
    /\ text = <<"a", " ">> \o Https \o Domain
    /\ match = Https \o Domain

(***************************************************************************)
(* URLUtils.extract_post_id.                                               *)
(***************************************************************************)
Posts == <<"/", "p", "o", "s", "t", "s", "/">>
Pfbid == <<"p", "f", "b", "i", "d">>

\* \/posts\/(pfbid\w+) at position i: the last position of the match, 0
\* for none.
MatchPostLink(s, i) ==
    LET j == i + Len(Posts) + Len(Pfbid) IN
    IF StartsWith(s, i, Posts \o Pfbid) /\ RunEnd(s, j, "\\w") >= j
    THEN RunEnd(s, j, "\\w") ELSE 0

\* Mutant of ExtractPostId: group(0), the whole match, for group(1).
ExtractPostIdGroup0(s) ==
    LET starts == {i \in 1..Len(s) : MatchPostLink(s, i) # 0} IN
    IF starts = {} THEN NoMatch
    ELSE LET i == CHOOSE k \in starts : \A k2 \in starts : k <= k2
         IN SubSeq(s, i, MatchPostLink(s, i))

\* URLUtils.extract_post_id: re.search, then group(1) or None.
ExtractPostId(s) ==
    LET starts == {i \in 1..Len(s) : MatchPostLink(s, i) # 0} IN
    IF starts = {} THEN NoMatch
    ELSE LET i == CHOOSE k \in starts : \A k2 \in starts : k <= k2
         IN SubSeq(s, i + Len(Posts), MatchPostLink(s, i))

LinkTokens ==
    {Posts, Pfbid, Posts \o Pfbid \o <<"1">>, Posts \o Pfbid \o <<"a">>,
     <<"a">>, <<"_">>, <<"?">>, <<"/">>}

InitPostId ==
    /\ AppIdle /\ PageIdle /\ StepIdle /\ LoginIdle /\ DbIdle
    /\ enable_comments = TRUE
    /\ shutdown_event = FALSE
    /\ db = {}
    /\ pc = "id_call"
    /\ text \in TextsOf(LinkTokens)
    /\ match = NoMatch

extract_post_id ==
    /\ pc = "id_call"
    /\ match' = ExtractPostId(text)
    /\ pc' = "id_done"
    /\ TextFrame

NextPostId == extract_post_id

SpecPostId == InitPostId /\ [][NextPostId]_vars

\* s has /posts/ at position i, followed by pfbid and a word character.
PostLinkAt(s, i) ==
    /\ i + Len(Posts) + Len(Pfbid) <= Len(s)
    /\ SubSeq(s, i, i + Len(Posts) + Len(Pfbid) - 1) = Posts \o Pfbid
    /\ IsWord(s[i + Len(Posts) + Len(Pfbid)])

\* C18: if the link has /posts/ followed by pfbid and a word character,
\* extract_post_id returns the identifier of the first such place: pfbid
\* and all the word characters that follow it, and nothing else; if it has
\* no such place the answer is none.  The call changes nothing but its
\* result.
C18_PostIdCaptured ==
    pc = "id_done" =>
        /\ db = {} /\ DbIdle /\ StepIdle /\ LoginIdle
        /\ LET at == {i \in 1..Len(text) : PostLinkAt(text, i)} IN
           IF at = {} THEN match = NoMatch
           ELSE LET i == CHOOSE k \in at : \A k2 \in at : k <= k2
                    b == i + Len(Posts)
                    e == b + Len(match) - 1
                IN /\ Len(match) > Len(Pfbid)
                   /\ e <= Len(text)
                   /\ match = SubSeq(text, b, e)
                   /\ SubSeq(match, 1, Len(Pfbid)) = Pfbid
                   /\ \A k \in 1..Len(match) : IsWord(match[k])
                   /\ e = Len(text) \/ ~IsWord(text[e + 1])

\* C18, its case: a link with two post ids; the first is returned, up to
\* the character that is not a word character.
C18_Witness ==
    /\ pc = "id_done"
    /\ text = Posts \o Pfbid \o <<"1", "_", "?">> \o Posts \o Pfbid \o <<"a">>
    /\ match = Pfbid \o <<"1", "_">>

\* C19: an exception raised by a step of one post does not leave
\* _process_single_post; when the function has returned after one,
\* close_all_other_tabs has been attempted; and the post loop of the page
\* goes on to the next post.
C19_PostExceptionsCaught ==
    [][/\ (post_exc = None /\ post_exc' # None) =>
              pc' \in {"s_except", "p_keep"}
       /\ pc = "s_except" => pc' \in {"p_keep", pc}
       /\ (pc = "p_keep" /\ post_exc # None) =>
              /\ close_all
              /\ pc' \in {"p_post_top", PageExceptTo, pc}
              /\ pc' = "p_post_top" => post_idx' = post_idx + 1]_vars

\* C20: an exception raised while one page is processed ends up in the
\* except clause of _process_page, which loses none of the records gathered
\* for the page and returns them to run_workflow; run_workflow adds them to
\* its results and goes on with the next page, so that, unless shutdown was
\* requested, it returns only after every configured page was navigated to;
\* and nothing but a failed login makes run_workflow raise.
C20_PageExceptionsCaught ==
    [][/\ page_exc' # page_exc =>
              /\ page_exc' = page_exc \cup {facebook_pages[page_idx]}
              /\ pc' = "r_extend"
              /\ Len(page_results') >= Len(page_results)
              /\ SubSeq(page_results', 1, Len(page_results)) = page_results
       /\ (pc = "r_extend" /\ pc' # pc) =>
              /\ results' = results \o page_results
              /\ page_idx' = page_idx + 1
              /\ pc' = "r_page_top"
       /\ (pc' = "r_returned" /\ ~shutdown_event') =>
              navigated' = facebook_pages
       /\ pc' = "r_raised" => pc \in {"r_login", "r_raised"}]_vars

\* C20, its case: the first page raised after a record was gathered; the
\* record is in the results and the second page was processed as well.
C20_Witness ==
    /\ pc = "r_returned"
    /\ ~shutdown_event
    /\ facebook_pages[1] \in page_exc
    /\ Len(facebook_pages) > 1
    /\ navigated = facebook_pages
    /\ Len(results) > 0
    /\ results[1].page_name = facebook_pages[1]

(***************************************************************************)
(* Failures of a cycle.                                                    *)
(***************************************************************************)
\* C21: when the login fails, run_workflow raises with no page navigated
\* to and no result; the attempt is counted in failed_runs and one entry is
\* appended to the error log; the browser session of the attempt is closed
\* and the workflow dropped; and the retry policy takes over: the retry
\* delay and then the next attempt when one is left, the exception to the
\* caller when none is.
C21_LoginFailure ==
    [][/\ (pc = "wf_login" /\ pc' \notin {"wf_login", "wf_page"}) =>
              /\ page_idx = 0 /\ results = <<>>
              /\ page_idx' = 0 /\ results' = <<>>
              /\ stats'.failed_runs = stats.failed_runs + 1
              /\ Len(stats'.errors) = Len(stats.errors) + 1
              /\ stats'.successful_runs = stats.successful_runs
              /\ browsers' = browsers - 1
              /\ workflow' = None
              /\ ~is_running'
              /\ IF attempt < max_retries - 1
                 THEN pc' = "sleeping" /\ ret' = "running"
                 ELSE ret' = "raised"
       /\ (pc = "sleeping" /\ pc' # pc) =>
              /\ pc' = "retry_top"
              /\ attempt' = attempt + 1
              /\ attempt' < max_retries
       /\ (pc = "retry_top" /\ ~shutdown_event /\ lastAttempt = "login_failed"
              /\ pc' # pc) => nAttempts' = nAttempts + 1]_vars

\* C21, its case: the login of the first attempt failed; the failure is
\* recorded, the browser closed, and the retry delay is running.
C21_Witness ==
    /\ pc = "sleeping"
    /\ lastAttempt = "login_failed"
    /\ attempt = 0
    /\ nFails = 1
    /\ stats.failed_runs = 1
    /\ Len(stats.errors) = 1
    /\ browsers = 0
    /\ workflow = None

\* C22: a post whose article fetch answered the fetcher's failure message
\* is not analysed and not commented on, and no record of a run that is
\* counted as analysed holds that message as its article text.
C22_FailedFetchUnusable ==
    /\ pc \in {"s_analyze", "s_comment"} =>
           post_data[1].article_text # FailedToScrape
    /\ \A i \in 1..Len(results) :
           results[i].article_text = FailedToScrape =>
               ArticlesAnalyzed(results) < Len(results)

\* C23: when the classifier fails for a post (TextAnalyzer.analyze raises,
\* so that no analysis comes back), the exception leaves run_workflow for
\* the retry loop: the post is not carried on with.
C23_ClassifierFailureRetried ==
    [][(pc = "s_analyze" /\ pc' # pc /\ post_data'[1].analysis = None)
       => pc' = "r_raised"]_vars

\* C24: the error log is bounded, whatever the number of failed attempts.
\* The bound tried is the number of failures one cycle can have; the
\* scheduler's later cycles each bring their own.
C24_ErrorLogBounded ==
    Len(stats.errors) <= MaxRetriesEnv

(***************************************************************************)
(* The limits of one run.                                                  *)
(***************************************************************************)
\* _process_single_post returned nothing to keep: None (no id, already in
\* the store, not opened) or a post whose id the page has had already.
Skipped ==
    \/ post_data = <<>>
    \/ post_data[1].post_id \in processed_ids

\* C25: _process_page never holds more than max_posts_per_page records and
\* adds at most that many to the results of the run, which therefore ends
\* with at most that many for each configured page; a post that is skipped
\* changes neither the page's count nor its records and starts no
\* inter-post delay, a post that is kept does all three once.
C25_PerPageMaximum ==
    [][/\ Len(page_results') <= max_posts_per_page
       /\ processed_count' = Len(page_results')
       /\ (pc = "r_extend" /\ pc' # pc) =>
              Len(results') <= Len(results) + max_posts_per_page
       /\ pc' = "r_returned" =>
              Len(results') <= Len(facebook_pages) * max_posts_per_page
       /\ (pc = "p_keep" /\ pc' # pc) =>
              IF Skipped
              THEN /\ processed_count' = processed_count
                   /\ page_results' = page_results
                   /\ waits' = waits
              ELSE /\ processed_count' = processed_count + 1
                   /\ page_results' = Append(page_results, post_data[1])
                   /\ waits' = waits + 1]_vars

\* C25, its case: a page showed two posts; the first was skipped, which
\* left room for the second, and the page returns one record after one
\* delay.
C25_Witness ==
    /\ pc = "r_extend"
    /\ posts = 2
    /\ post_idx = 3
    /\ processed_count = max_posts_per_page
    /\ Len(page_results) = max_posts_per_page
    /\ waits = 1

(***************************************************************************)
(* FacebookScraper.login: the attempts, the cached cookies and the fresh   *)
(* login.  login_log lists what was done, each entry with its outcome and  *)
(* with whether the cookie file exists afterwards.                         *)
(***************************************************************************)
\* login: max_attempts
max_attempts == 3

\* What the session restored from the cookies can look like: the login
\* prompt, the two-step page, no sign of success, an exception on the way,
\* or a session that is logged in.
CachedSessions ==
    {"login_prompt", "two_step_verification", "no_indicator", "exception",
     "ok"}

\* Mutant of InvalidSession: the file is deleted for the login prompt and
\* the two-step page only.
InvalidSessionPromptOnly(session) ==
    session \in {"login_prompt", "two_step_verification"}

\* The branches of the cookie block that delete the file: all but the return.
InvalidSession(session) == session # "ok"

Entry(ev, out, file) == [ev |-> ev, out |-> out, file |-> file]

InitLogin ==
    /\ AppIdle /\ PageIdle /\ StepIdle /\ DbIdle /\ TextIdle
    /\ enable_comments = TRUE
    /\ shutdown_event = FALSE
    /\ db = {}
    /\ pc = "g_top"
    /\ cookie_file \in BOOLEAN
    /\ login_attempt = 0
    /\ login_log = <<>>

LoginFrame ==
    UNCHANGED <<cfgVars, appVars, loopVars, wfVars, pageVars, obsVars,
                exitVars, shutdown_event, db, dbVars, stepVars, textVars>>

\* The while loop: the next attempt, or the exception after the last one.
login ==
    /\ pc = "g_top"
    /\ IF login_attempt < max_attempts
       THEN /\ login_attempt' = login_attempt + 1
            /\ login_log' =
                  Append(login_log, Entry("attempt", None, cookie_file))
            /\ pc' = IF cookie_file THEN "g_cookies" ELSE "g_fresh"
       ELSE /\ pc' = "g_raised"
            /\ UNCHANGED <<login_attempt, login_log>>
    /\ UNCHANGED cookie_file
    /\ LoginFrame

\* The cookie block: load_cookies, then the look at the session.
load_cookies ==
    /\ pc = "g_cookies"
    /\ \E session \in CachedSessions :
          IF session = "ok"
          THEN /\ login_log' =
                     Append(login_log, Entry("load", session, cookie_file))
               /\ pc' = "g_returned"
               /\ UNCHANGED cookie_file
          ELSE /\ cookie_file' =
                     (IF InvalidSession(session) THEN FALSE ELSE cookie_file)
               /\ login_log' = login_log \o
                     <<Entry("load", session, cookie_file),
                       Entry("remove", None, cookie_file')>>
               /\ pc' = "g_fresh"
    /\ UNCHANGED login_attempt
    /\ LoginFrame

\* The fresh login up to the click: the page does not load or typing fails
\* (the outer except clause), the form is not found (continue), or the
\* credentials are submitted.
fresh_login ==
    /\ pc = "g_fresh"
    /\ \E out \in {"exception", "not_found", "submitted"} :
          /\ cookie_file' = (IF out = "exception" THEN FALSE ELSE cookie_file)
          /\ login_log' = Append(login_log, Entry("fresh", out, cookie_file'))
          /\ pc' = IF out = "submitted" THEN "g_verify" ELSE "g_top"
    /\ UNCHANGED login_attempt
    /\ LoginFrame

\* The success check and what follows it: save_cookies and the return, or,
\* when the check fails, the check raises or save_cookies raises, the file
\* is deleted if it is there and the next attempt follows.
save_cookies ==
    /\ pc = "g_verify"
    /\ \/ \E saved \in BOOLEAN :
             /\ cookie_file' = saved
             /\ login_log' = login_log \o
                   <<Entry("verify", "ok", cookie_file),
                     Entry("save", IF saved THEN "ok" ELSE "exception",
                           saved)>>
             /\ pc' = IF saved THEN "g_returned" ELSE "g_top"
       \/ \E out \in {"no_indicator", "exception"} :
             /\ cookie_file' = FALSE
             /\ login_log' = Append(login_log, Entry("verify", out, FALSE))
             /\ pc' = "g_top"
    /\ UNCHANGED login_attempt
    /\ LoginFrame

NextLogin ==
    \/ login
    \/ load_cookies
    \/ fresh_login
    \/ save_cookies

SpecLogin == InitLogin /\ [][NextLogin]_vars

\* C26: in every attempt an existing cookie file is tried first; a cached
\* session that proves invalid has its file deleted at once, so that a
\* fresh login never starts with the file in place; the file is written
\* only right after the success check of a fresh login has passed; there
\* are at most max_attempts attempts; and when login gives up there is no
\* cookie file.
C26_CookieJar ==
    LET L == login_log
        n == Len(login_log)
    IN /\ login_attempt <= max_attempts
       /\ Cardinality({k \in 1..n : L[k].ev = "attempt"}) = login_attempt
       /\ n > 0 => L[n].file = cookie_file
       /\ \A k \in 1..n :
             /\ (L[k].ev = "attempt" /\ L[k].file /\ k < n) =>
                    L[k + 1].ev = "load"
             /\ (L[k].ev = "load" /\ L[k].out # "ok") =>
                    /\ k < n
                    /\ L[k + 1].ev = "remove"
                    /\ ~L[k + 1].file
             /\ L[k].ev = "fresh" => ~L[k - 1].file
             /\ L[k].ev = "save" =>
                    /\ k > 2
                    /\ L[k - 1].ev = "verify" /\ L[k - 1].out = "ok"
                    /\ L[k - 2].ev = "fresh"
             /\ (k > 1 /\ L[k].file /\ ~L[k - 1].file) => L[k].ev = "save"
       /\ pc = "g_raised" =>
             /\ login_attempt = max_attempts
             /\ ~cookie_file

\* C26, its case: there was a cookie file, its session proved invalid, the
\* fresh logins of all attempts failed, one of them at the success check,
\* and login gave up with the file gone.
C26_Witness ==
    /\ pc = "g_raised"
    /\ login_log[1].file
    /\ login_log[2].ev = "load"
    /\ login_log[2].out = "no_indicator"
    /\ \E k \in 1..Len(login_log) : login_log[k].ev = "verify"
    /\ ~cookie_file

(***************************************************************************)
(* _execute_workflow, clause by clause: a sequence of attempts, each with  *)
(* the construction of the workflow in its two parts (the browser, then    *)
(* the other components), the run, the except and the finally clause.      *)
(***************************************************************************)
\* The attempts followed.
MaxAttempts == 3

\* What run_workflow returns: up to one record for each page.
RunResults ==
    LET r == [post_id |-> "pfbid2", page_name |-> facebook_pages[1],
              post_text |-> "text", article_url |-> "url",
              article_text |-> "article", analysis |-> "comment"]
    IN {<<>>, <<r>>, <<r, [r EXCEPT !.page_name = facebook_pages[2]]>>}

InitAttempt ==
    /\ AppIdle /\ PageIdle /\ StepIdle /\ LoginIdle /\ DbIdle /\ TextIdle
    /\ enable_comments \in BOOLEAN
    /\ shutdown_event = FALSE
    /\ db = InitialDb
    /\ pc = "e_call"

AttemptFrame ==
    UNCHANGED <<cfgVars, loopVars, wfVars, pageVars, nFails, nSleeps, ret,
                exitVars, shutdown_event, db, unitVars>>

\* Lines 157-167: the guard, the bookkeeping and the new-day reset.
attempt_start ==
    /\ pc = "e_call"
    /\ nAttempts < MaxAttempts
    /\ nAttempts' = nAttempts + 1
    /\ IF is_running
       THEN /\ lastAttempt' = "busy"
            /\ UNCHANGED <<appVars, pc>>
       ELSE \E now1 \in NowFrom(clock) : \E now2 \in NowFrom(now1) :
               /\ stats' = StatsAtStart(stats, now1, now2)
               /\ clock' = Trunc(now2)
               /\ is_running' = TRUE
               /\ lastAttempt' = "running"
               /\ pc' = "e_limits"
               /\ UNCHANGED <<workflow, browsers>>
    /\ AttemptFrame

\* Lines 170-175: the daily limits.
check_limits ==
    /\ pc = "e_limits"
    /\ IF DailyLimitReached(stats)
       THEN /\ lastAttempt' = "skipped"
            /\ pc' = "e_finally"
       ELSE /\ UNCHANGED lastAttempt
            /\ pc' = "e_browser"
    /\ UNCHANGED <<appVars, nAttempts>>
    /\ AttemptFrame

\* FacebookAutomationWorkflow.__init__, lines 135-141: the browser driver
\* is set up, or setup_driver raises.
setup_driver ==
    /\ pc = "e_browser"
    /\ \/ /\ browsers' = browsers + 1
          /\ pc' = "e_components"
       \/ /\ UNCHANGED browsers
          /\ pc' = "e_except"
    /\ UNCHANGED <<stats, is_running, workflow, clock, nAttempts, lastAttempt>>
    /\ AttemptFrame

\* __init__, lines 146-158: the other components (TextAnalyzer reads the
\* prompt file, FacebookDatabase opens the store); app_runner.py 177 assigns
\* self.workflow only when all of __init__ has returned.
init_components ==
    /\ pc = "e_components"
    /\ \/ /\ workflow' = "workflow"
          /\ pc' = "e_run"
       \/ /\ UNCHANGED workflow
          /\ pc' = "e_except"
    /\ UNCHANGED <<stats, is_running, browsers, clock, nAttempts, lastAttempt>>
    /\ AttemptFrame

\* Lines 178-181: run_workflow returns and the statistics are updated, or
\* it raises.
run_attempt ==
    /\ pc = "e_run"
    /\ \/ \E res \in RunResults :
             /\ stats' = [UpdateStatistics(stats, res)
                             EXCEPT !.successful_runs = @ + 1]
             /\ lastAttempt' = "ok"
             /\ pc' = "e_finally"
       \/ /\ UNCHANGED <<stats, lastAttempt>>
          /\ pc' = "e_except"
    /\ UNCHANGED <<is_running, workflow, browsers, clock, nAttempts>>
    /\ AttemptFrame

\* Lines 183-188: the except clause.
except_clause ==
    /\ pc = "e_except"
    /\ stats' = RecordFailure(stats)
    /\ lastAttempt' = "failed"
    /\ pc' = "e_finally"
    /\ UNCHANGED <<is_running, workflow, browsers, clock, nAttempts>>
    /\ AttemptFrame

\* Lines 190-196: the finally clause; then the call is over.
finally_clause ==
    /\ pc = "e_finally"
    /\ IF workflow # None
       THEN /\ browsers' = browsers - 1
            /\ workflow' = None
       ELSE UNCHANGED <<browsers, workflow>>
    /\ is_running' = FALSE
    /\ pc' = "e_call"
    /\ UNCHANGED <<stats, clock, nAttempts, lastAttempt>>
    /\ AttemptFrame

NextAttempt ==
    \/ attempt_start
    \/ check_limits
    \/ setup_driver
    \/ init_components
    \/ run_attempt
    \/ except_clause
    \/ finally_clause

SpecAttempt == InitAttempt /\ [][NextAttempt]_vars

\* C27: never more than one browser session is open, and between two calls
\* of _execute_workflow none is: every session an attempt opened is closed
\* when the attempt is over, with self.workflow None and is_running False.
C27_OneSession ==
    /\ browsers <= 1
    /\ pc = "e_call" =>
           /\ browsers = 0
           /\ workflow = None
           /\ ~is_running

\* C28: when _process_single_post has returned, by its last line, by an
\* early return or after a caught exception, no tab besides the main one
\* is open: the next post starts from the main tab alone.
C28_TabsClosed ==
    pc = "p_keep" => tabs = 0

\* C29: the statistics of a successful cycle count as comments posted
\* exactly the posts for which _post_comment answered True: what
\* _update_statistics adds to total_comments_posted and to
\* daily_comments_posted for the results run_workflow returned is the
\* number of successful _post_comment calls of that run.
C29_CommentsPosted ==
    pc = "r_returned" =>
        LET s == UpdateStatistics(stats, results)
        IN /\ s.total_comments_posted =
                 stats.total_comments_posted + published
           /\ s.daily_comments_posted =
                 stats.daily_comments_posted + published

\* C30: when the shutdown flag is found set at the top of the retry loop
\* after a failed attempt, _execute_workflow_with_retries makes no further
\* attempt and returns normally, the earlier failure is not raised; a
\* single run then ends with status 0 although every attempt it made
\* failed.
C30_ShutdownAfterFailure ==
    [][(pc = "retry_top" /\ shutdown_event /\ nFails > 0 /\ pc' # pc) =>
           /\ nAttempts' = nAttempts
           /\ nFails' = nFails
           /\ stats' = stats
           /\ ret' = "returned"
           /\ IF caller = "single"
              THEN pc' = "exited" /\ exit_code' = 0
              ELSE pc' = "sched_loop"]_vars

\* C30, its case: a single run with retries left whose only attempt failed,
\* shut down during the retry delay, has exited with status 0.
C30_Witness ==
    /\ run_mode = "single"
    /\ pc = "exited"
    /\ shutdown_event
    /\ nFails = 1
    /\ nAttempts = 1
    /\ nSleeps = 1
    /\ max_retries > 1
    /\ lastAttempt \in {"failed", "login_failed"}
    /\ stats.successful_runs = 0
    /\ ret = "returned"
    /\ exit_code = 0

====
